---- MODULE Spec2Model ----
(***************************************************************************)
(* Model of the energytest measurement framework:                          *)
(*   src/energytest/utils.py       FunctionProfiler, DetailedProfiler      *)
(*   src/energytest/sensors.py     EnergySensor, NVMeSensor                *)
(*   src/energytest/experiment.py  Experiment.run, run_experiment          *)
(*                                                                         *)
(* Several state machines share the module.  Spec is one Experiment object *)
(* running trials while the threads and the worker process of its workload *)
(* make profiled calls; SpecNoFault, SpecDetailed and SpecFlat are         *)
(* variants of it.  SpecPersist is run_experiment() invoked several times  *)
(* on one output destination.  SpecDeltas is the NVMe snapshots and deltas *)
(* of a trial.                                                             *)
(***************************************************************************)
EXTENDS Integers, Sequences, FiniteSets, TLC

\* ------------------------------------------------------------------ bounds
MaxCalls == 3        \* profiled calls made in one behaviour of Spec
MaxTrials == 2       \* Experiment.run() invocations in one behaviour of Spec
MaxRuns == 2         \* largest trial count N given to run_experiment()
MaxTotalRuns == 3    \* trials requested over all run_experiment() invocations
MaxCounter == 2      \* largest value of an NVMe SMART counter in SpecDeltas

None == "None"

\* ---------------------------------------------------------------- callers
\* main: the thread that executes Experiment.run() and the workload;
\* t1:   a second thread of the same process (ThreadPoolExecutor, gran.py);
\* w1:   a spawned worker process (ProcessPoolExecutor, conc2.py).
Callers == {"main", "t1", "w1"}
Pids == {"parent", "worker"}
Pid(c) == IF c = "w1" THEN "worker" ELSE "parent"

\* the wrapped functions: f is wrapped by energy_profile (FunctionProfiler),
\* h by context_profile (DetailedProfiler)
FuncNames == {"f", "h"}
Kind(fn) == IF fn = "h" THEN "context" ELSE "energy"
\* what each caller calls: pool threads and workers run energy_profile tasks
\* (gran.py, conc2.py), the main thread also context_profile ones (busy.py)
Wrapped(c) == IF c = "main" THEN FuncNames ELSE {"f"}
EnergyVals == {0, 1}                 \* joules a capture reports (0: the counters gave no reading)

VARIABLES
    \* ---- Spec: profiler and trial
    env,          \* 'ENERGYTEST_PROFILE_DIR' in os.environ
    records,      \* FunctionProfiler._records, one list per process
    detailed,     \* DetailedProfiler._records, one list per process
    files,        \* the *.json files of the profile directory: {[path, rec]}
    lock,         \* energy_sensor_lock of each process: its holder or None
    open,         \* EnergySensor captures between __enter__ and __exit__
    pc,           \* position of each caller inside wrapper()
    cur,          \* the call each caller is making
    now,          \* last value time.time() returned, in microseconds
    rapl,         \* joules every capture on this machine reports (0: RAPL gives no reading)
    tpc,          \* position of the main thread inside Experiment.run()
    trial,        \* number of run() invocations started
    measure_total_run,
    run_energy_j, \* run_energy_j of the current trial
    profiles,     \* what get_profiles() returned in the current trial
    \* ---- history of Spec (not program state)
    nextCall,     \* identities given to calls so far
    completed,    \* number of energy_profile calls completed since the trial's clear
    worker_calls, \* those of them made in a worker process
    handed,       \* [func, wrapper]: what a wrapped function produced and what
                  \* wrapper() then handed to its caller, for the calls since run() started
    exited,       \* how the last run() ended: "returned" or "raised"
    \* ---- SpecPersist: run_experiment() and the three CSV files
    exists,       \* the files of the destination that exist
    rows,         \* the lines of each file
    rpc,          \* position inside run_experiment()
    runs,         \* its argument runs
    setup_calls,  \* calls of exp.setup() made by the invocation in progress
    all_results,  \* its list all_results
    uuids,        \* number of uuid4() values drawn so far
    \* ---- history of SpecPersist (not program state)
    requested,    \* trials requested so far
    persisted,    \* the run_data of every trial written so far
    persists,     \* invocations that wrote their results so far
    failed,       \* a trial of the current invocation raised
    exists0,      \* exists when the current invocation started, or when it returned
    rows0,        \* rows when the current invocation started, or when it returned
    \* ---- SpecDeltas: the NVMe snapshots of one trial
    dpc,          \* position inside Experiment.run(): "before", "after", "deltas", "done"
    nvme_before,  \* nvme_sensor.read_counters() of line 42
    nvme_after,   \* nvme_sensor.read_counters() of line 63
    delta_metrics \* the items lines 73-76 add to metrics

profVars == <<env, records, detailed, files, lock, open, pc, cur, now, rapl, tpc, trial,
              measure_total_run, run_energy_j, profiles, nextCall, completed,
              worker_calls, handed, exited>>

persistVars == <<exists, rows, rpc, runs, setup_calls, all_results, uuids,
                 requested, persisted, persists, failed, exists0, rows0>>

deltaVars == <<dpc, nvme_before, nvme_after, delta_metrics>>

vars == <<profVars, persistVars, deltaVars>>

NoCall == [fn |-> None, depth |-> 0, energy |-> 0, result |-> None, exc |-> FALSE,
           warned |-> FALSE]

\* ------------------------------------------------------------- utils.py
\* (mutant) a worker process that does not see the parent's variable
GetProfileDirParentOnly(p) == p = "parent" /\ env

\* FunctionProfiler._get_profile_dir: os.environ.get('ENERGYTEST_PROFILE_DIR').
\* A worker is spawned inside _run() and inherits the parent's environment.
GetProfileDir(p) == env

\* (mutant) a lock whose acquire never waits
LockFreeNoWait(p) == TRUE

\* (mutant) a lock that lets a caller in while its holder waits for it again
LockFreeReentrant(p) ==
    lock[p] = None \/ \E c \in Callers : Pid(c) = p /\ lock[p] = c /\ pc[c] = "nested"

\* threading.Lock: acquire succeeds only when nobody holds the lock.
LockFree(p) == lock[p] = None

\* prof_<pid>_<timestamp>.json
FPath(p, ts) == <<p, ts>>

\* the trial a call completes in, 0 between trials (history)
TrialNow == IF tpc = "idle" THEN 0 ELSE trial

\* the record dict of wrapper(); tag is the history's name of the call: the
\* trial it completed in and its rank among the calls completed in that trial
Record(c) == [func_name |-> cur[c].fn, energy_j |-> cur[c].energy, elapsed_ns |-> 1,
              tag |-> <<TrialNow, IF tpc = "idle" THEN 0 ELSE completed + 1>>]

\* the dict DetailedProfiler appends (args, kwargs and return are not modelled)
DetailedRecord(c) == [func_name |-> cur[c].fn, energy_j |-> cur[c].energy, elapsed_ns |-> 1]

\* (mutant) a write that leaves the directory as it was
WriteFileNothing(fs, path, rec) == fs

\* open(fpath, 'w'); json.dump(record, f): creates or overwrites the file
WriteFile(fs, path, rec) == {f \in fs : f.path # path} \cup {[path |-> path, rec |-> rec]}

\* A caller enters wrapper(), "with energy_sensor_lock": main inside the
\* workload or between trials, the other thread and the worker only while the
\* workload runs.  A caller at "nested" is inside a wrapped function that
\* called another wrapped function and waits for the lock as well.
Acquire(c) ==
    /\ pc[c] \in {"idle", "nested"}
    /\ LockFree(Pid(c))
    /\ IF pc[c] = "idle"
         THEN /\ nextCall < MaxCalls
              /\ IF c = "main" THEN tpc \in {"idle", "workload"} ELSE tpc = "workload"
              /\ \E fn \in Wrapped(c) :
                    cur' = [cur EXCEPT ![c] = [fn |-> fn, depth |-> 1, energy |-> 0,
                                               result |-> None, exc |-> FALSE,
                                               warned |-> FALSE]]
              /\ nextCall' = nextCall + 1
         ELSE UNCHANGED <<cur, nextCall>>
    /\ lock' = [lock EXCEPT ![Pid(c)] = c]
    /\ pc' = [pc EXCEPT ![c] = "begin"]
    /\ UNCHANGED <<deltaVars, persistVars, rapl, handed, worker_calls, exited, env, records, detailed, files, open, now, tpc, trial,
                   measure_total_run, run_energy_j, profiles, completed>>

\* what the wrapped function fn returns when it returns
ReturnOf(fn) == IF fn = "h" THEN "h()" ELSE "f()"
\* what a call's function produced: its return value or a failure
FuncOutcome(call) == IF call.exc THEN "raise" ELSE ReturnOf(call.fn)

\* (mutant) a wrapper that returns nothing
WrapperReturnNone(call) == None

\* return result   (utils.py lines 55 and 117)
WrapperReturn(call) == call.result

\* (mutant) a sensor that fails when the counters give nothing
SensorExitRaisesOnZero(total) ==
    [energy_j |-> total, warn |-> total = 0, raises |-> total = 0]

\* EnergySensor.__exit__ (sensors.py lines 108-124) for a total reading of
\* total joules, 0 when the counters gave zero or no reading: the warning of
\* line 119, the value results['energy_j'] then returns, and no failure
SensorExit(total) ==
    [energy_j |-> total, warn |-> total = 0, raises |-> FALSE]

\* (mutant) a wrapper that goes on to its record after a failure
RaisesRecordsAnyway(call) == FALSE

\* a call leaves wrapper() with a failure: its function's or the sensor's
Raises(call) == call.exc \/ SensorExit(rapl).raises

\* with EnergySensor(func.__name__) as sensor:   (__enter__: self._meas.begin()).
\* Reading the counters takes longer than the microsecond of the clock.
Begin(c) ==
    /\ pc[c] = "begin"
    /\ open' = open \cup {<<Pid(c), c>>}
    /\ now' = now + 1
    /\ pc' = [pc EXCEPT ![c] = "func"]
    /\ UNCHANGED <<deltaVars, persistVars, rapl, handed, worker_calls, exited, env, records, detailed, files, lock, cur, tpc, trial,
                   measure_total_run, run_energy_j, profiles, nextCall, completed>>

\* the wrapped function calls another profiled function on the same thread:
\* the inner wrapper() starts with "with energy_sensor_lock"
FuncNested(c) ==
    /\ pc[c] = "func"
    /\ cur[c].depth = 1
    /\ cur' = [cur EXCEPT ![c].depth = 2]
    /\ pc' = [pc EXCEPT ![c] = "nested"]
    /\ UNCHANGED <<deltaVars, persistVars, rapl, handed, worker_calls, exited, env, records, detailed, files, lock, open, now, tpc, trial,
                   measure_total_run, run_energy_j, profiles, nextCall, completed>>

\* result = func(*args, **kwargs) returns or raises, and the with block ends the
\* capture: EnergySensor.__exit__, self._meas.end().  energy =
\* sensor.results['energy_j'] is reached only when func returned.
End(c) ==
    /\ pc[c] = "func"
    /\ open' = open \ {<<Pid(c), c>>}
    /\ \/ cur' = [cur EXCEPT ![c].energy = SensorExit(rapl).energy_j,
                              ![c].result = ReturnOf(cur[c].fn),
                              ![c].warned = SensorExit(rapl).warn]
       \/ cur' = [cur EXCEPT ![c].exc = TRUE, ![c].warned = SensorExit(rapl).warn]
    /\ pc' = [pc EXCEPT ![c] = "release"]
    /\ UNCHANGED <<deltaVars, persistVars, rapl, handed, worker_calls, exited, env, records, detailed, files, lock, now, tpc, trial,
                   measure_total_run, run_energy_j, profiles, nextCall, completed>>

\* (mutant) a lock that stays held when the function failed
UnlockUnlessRaised(l, c) == IF cur[c].exc THEN l ELSE [l EXCEPT ![Pid(c)] = None]

\* the end of "with energy_sensor_lock" (utils.py lines 30 and 101):
\* Lock.__exit__ releases the lock on a normal exit and on a failure
Unlock(l, c) == [l EXCEPT ![Pid(c)] = None]

\* leaving "with energy_sensor_lock"; a failure of func leaves wrapper() here:
\* EnergySensor.__exit__ returns None and wrapper() has no except clause
Release(c) ==
    /\ pc[c] = "release"
    /\ lock' = Unlock(lock, c)
    /\ IF Raises(cur[c])
         THEN /\ pc' = [pc EXCEPT ![c] = "idle"]
              /\ cur' = [cur EXCEPT ![c] = NoCall]
              /\ handed' = handed \cup {[func |-> FuncOutcome(cur[c]), wrapper |-> "raise"]}
         ELSE /\ pc' = [pc EXCEPT ![c] = "record"]
              /\ cur' = cur
              /\ handed' = handed
    /\ UNCHANGED <<deltaVars, persistVars, rapl, worker_calls, exited, env, records, detailed, files, open, now, tpc, trial,
                   measure_total_run, run_energy_j, profiles, nextCall, completed>>

\* (mutant) a handler that falls back to the list in memory
OnIOErrorAppends(recs, rec) == Append(recs, rec)

\* except IOError (lines 51-52): a warning is printed, _records is left alone
OnIOError(recs, rec) == recs

\* FunctionProfiler: the record goes to a file of the profile directory when
\* one is configured, to _records otherwise; the write may fail (IOError).
\* time.time() is read at microsecond resolution: ts is the last value read
\* or a later one.
RecordEnergyWith(c, outcomes) ==
    /\ pc[c] = "record"
    /\ Kind(cur[c].fn) = "energy"
    /\ IF GetProfileDir(Pid(c))
         THEN \E ts \in {now, now + 1}, ok \in outcomes :
                /\ now' = ts
                /\ files' = IF ok THEN WriteFile(files, FPath(Pid(c), ts), Record(c))
                                  ELSE files
                /\ records' = IF ok THEN records
                               ELSE [records EXCEPT ![Pid(c)] = OnIOError(@, Record(c))]
         ELSE /\ records' = [records EXCEPT ![Pid(c)] = Append(@, Record(c))]
              /\ UNCHANGED <<files, now>>
    /\ completed' = IF tpc = "idle" THEN completed ELSE completed + 1
    /\ worker_calls' = IF Pid(c) = "worker" THEN worker_calls + 1 ELSE worker_calls
    /\ pc' = [pc EXCEPT ![c] = "idle"]
    /\ cur' = [cur EXCEPT ![c] = NoCall]
    /\ handed' = handed \cup {[func |-> FuncOutcome(cur[c]), wrapper |-> WrapperReturn(cur[c])]}
    /\ UNCHANGED <<deltaVars, persistVars, rapl, exited, env, detailed, lock, open, tpc, trial,
                   measure_total_run, run_energy_j, profiles, nextCall>>

RecordEnergy(c) == RecordEnergyWith(c, BOOLEAN)

\* the same step on a disk that never fails
RecordEnergyNoFault(c) == RecordEnergyWith(c, {TRUE})

\* DetailedProfiler: with cls._lock: cls._records.append({...})
RecordDetailed(c) ==
    /\ pc[c] = "record"
    /\ Kind(cur[c].fn) = "context"
    /\ detailed' = [detailed EXCEPT ![Pid(c)] = Append(@, DetailedRecord(c))]
    /\ pc' = [pc EXCEPT ![c] = "idle"]
    /\ cur' = [cur EXCEPT ![c] = NoCall]
    /\ handed' = handed \cup {[func |-> FuncOutcome(cur[c]), wrapper |-> WrapperReturn(cur[c])]}
    /\ UNCHANGED <<deltaVars, persistVars, rapl, worker_calls, exited, env, records, files, lock, open, now, tpc, trial,
                   measure_total_run, run_energy_j, profiles, nextCall, completed>>

\* FunctionProfiler.clear: _records.clear(), then every *.json file of the
\* profile directory is removed when a directory is configured
ClearRecords(p) == [records EXCEPT ![p] = <<>>]
ClearFilesKeeps(p) == files
ClearFiles(p) == IF GetProfileDir(p) THEN {} ELSE files

\* the enumerations of a finite set: glob.glob() lists the files in any order
Orders(S) == {s \in [1..Cardinality(S) -> S] : \A i, j \in 1..Cardinality(S) : i # j => s[i] # s[j]}

\* FunctionProfiler.get_records: list(_records), then the parsed content of
\* every *.json file when a directory is configured
GetRecords(p) ==
    IF GetProfileDir(p)
      THEN {records[p] \o [i \in 1..Len(o) |-> o[i].rec] : o \in Orders(files)}
      ELSE {records[p]}

\* the worker process ends with the executor of the workload: its lists die with it
WorkerExit(store) == [store EXCEPT !["worker"] = <<>>]

AllJoined == \A c \in Callers : pc[c] = "idle"

\* ------------------------------------------------------- experiment.py
\* (mutant) a run() that harvests before it runs the workload
NextStepHarvestFirst(s) ==
    IF s = "clear" THEN "before"
    ELSE IF s = "before" THEN "harvest"
    ELSE IF s = "harvest" THEN "start"
    ELSE IF s = "start" THEN "workload"
    ELSE IF s = "workload" THEN "after"
    ELSE "finally"

\* the statements of the try block of Experiment.run in program order:
\* clear_profiles() (line 32), the 'before' snapshots (35-44), self._run()
\* (46-55), the 'after' snapshots and the deltas (57-76), get_profiles()
\* (78-79), return (80)
NextStep(s) ==
    IF s = "clear" THEN "before"
    ELSE IF s = "before" THEN "start"
    ELSE IF s = "start" THEN "workload"
    ELSE IF s = "workload" THEN "after"
    ELSE IF s = "after" THEN "harvest"
    ELSE "finally"

\* Experiment.run, lines 25-29: the directories, then the environment variable
RunEnter ==
    /\ tpc = "idle"
    /\ pc["main"] = "idle"
    /\ trial < MaxTrials
    /\ trial' = trial + 1
    /\ env' = TRUE
    /\ tpc' = "clear"
    /\ exited' = None
    /\ handed' = {}
    /\ UNCHANGED <<deltaVars, persistVars, rapl, worker_calls, records, detailed, files, lock, open, pc, cur, now,
                   measure_total_run, run_energy_j, profiles, nextCall, completed>>

\* (mutant) a clear_profiles() that empties the DetailedProfiler store as well
DetailedAfterClearEmptied == [detailed EXCEPT !["parent"] = <<>>]

\* clear_profiles is FunctionProfiler.clear (utils.py line 88), which does
\* not touch DetailedProfiler._records
DetailedAfterClear == detailed

\* line 32: clear_profiles()
Clear ==
    /\ tpc = "clear"
    /\ records' = ClearRecords("parent")
    /\ files' = ClearFiles("parent")
    /\ completed' = 0
    /\ worker_calls' = 0
    /\ tpc' = NextStep("clear")
    /\ detailed' = DetailedAfterClear
    /\ UNCHANGED <<deltaVars, persistVars, rapl, handed, exited, env, lock, open, pc, cur, now, trial,
                   measure_total_run, run_energy_j, profiles, nextCall>>

\* clear_profiles() called by the main thread outside run()
ClearProfiles ==
    /\ tpc = "idle"
    /\ pc["main"] = "idle"
    /\ records' = ClearRecords("parent")
    /\ files' = ClearFiles("parent")
    /\ UNCHANGED <<deltaVars, persistVars, rapl, handed, exited, worker_calls, env, detailed, lock, open, pc, cur,
                   now, tpc, trial, measure_total_run, run_energy_j, profiles, nextCall,
                   completed>>

\* clear_detailed_profiles() called by the main thread outside run():
\* DetailedProfiler.clear, with cls._lock: cls._records.clear()
ClearDetailedProfiles ==
    /\ tpc = "idle"
    /\ pc["main"] = "idle"
    /\ detailed' = [detailed EXCEPT !["parent"] = <<>>]
    /\ UNCHANGED <<deltaVars, persistVars, rapl, handed, exited, worker_calls, env, records, files,
                   lock, open, pc, cur, now, tpc, trial, measure_total_run, run_energy_j,
                   profiles, nextCall, completed>>

\* lines 35-44: the 'before' snapshots, run_energy_j = 0.0
Before ==
    /\ tpc = "before"
    /\ run_energy_j' = 0
    /\ tpc' = NextStep("before")
    /\ UNCHANGED <<deltaVars, persistVars, rapl, handed, worker_calls, exited, env, records, detailed, files, lock, open, pc, cur, now, trial,
                   measure_total_run, profiles, nextCall, completed>>

\* lines 46-48 and 53: with EnergySensor(...) when measure_total_run,
\* then self._run() starts
RunCaptureAlways == {<<"parent", "run">>}
RunCapture == IF measure_total_run THEN {<<"parent", "run">>} ELSE {}

StartWorkload ==
    /\ tpc = "start"
    /\ open' = open \cup RunCapture
    /\ tpc' = NextStep("start")
    /\ UNCHANGED <<deltaVars, persistVars, rapl, handed, worker_calls, exited, env, records, detailed, files, lock, pc, cur, now, trial,
                   measure_total_run, run_energy_j, profiles, nextCall, completed>>

\* lines 49-51 and 54-55: self._run() returns after joining its threads and
\* workers; the capture of the whole workload ends
WorkloadReturn ==
    /\ tpc = "workload"
    /\ AllJoined
    /\ open' = open \ {<<"parent", "run">>}
    /\ IF measure_total_run
         THEN run_energy_j' = SensorExit(rapl).energy_j
         ELSE run_energy_j' = run_energy_j
    /\ records' = WorkerExit(records)
    /\ detailed' = WorkerExit(detailed)
    /\ tpc' = NextStep("workload")
    /\ UNCHANGED <<deltaVars, persistVars, rapl, handed, worker_calls, exited, env, files, lock, pc, cur, now, trial,
                   measure_total_run, profiles, nextCall, completed>>

\* lines 58-76: the 'after' snapshots and the deltas
After ==
    /\ tpc = "after"
    /\ tpc' = NextStep("after")
    /\ UNCHANGED <<deltaVars, persistVars, rapl, handed, worker_calls, exited, env, records, detailed, files, lock, open, pc, cur, now, trial,
                   measure_total_run, run_energy_j, profiles, nextCall, completed>>

\* lines 78-79: profiles = get_profiles()
Harvest ==
    /\ tpc = "harvest"
    /\ profiles' \in GetRecords("parent")
    /\ tpc' = NextStep("harvest")
    /\ UNCHANGED <<deltaVars, persistVars, rapl, handed, worker_calls, exited, env, records, detailed, files, lock, open, pc, cur, now, trial,
                   measure_total_run, run_energy_j, nextCall, completed>>

\* lines 80-84: return metrics, through the finally clause
Finally ==
    /\ tpc = "finally"
    /\ env' = FALSE
    /\ tpc' = "idle"
    /\ profiles' = <<>>
    /\ run_energy_j' = 0
    /\ completed' = 0
    /\ exited' = "returned"
    /\ worker_calls' = 0
    /\ UNCHANGED <<deltaVars, persistVars, rapl, handed, records, detailed, files, lock, open, pc, cur, now, trial,
                   measure_total_run, nextCall>>

\* lines 82-84: the finally clause runs on a failure as on a return and
\* deletes the variable
EnvAfterRaiseKept == env
EnvAfterRaise == FALSE

\* a failure inside the try block (the workload, a snapshot, clear or the
\* harvest raises): the with block ends the capture, the finally clause runs
\* and the failure leaves run()
TrialRaise ==
    /\ tpc \in {"clear", "before", "start", "workload", "after", "harvest"}
    /\ AllJoined
    /\ open' = open \ {<<"parent", "run">>}
    /\ env' = EnvAfterRaise
    /\ profiles' = <<>>
    /\ run_energy_j' = 0
    /\ completed' = 0
    /\ records' = WorkerExit(records)
    /\ detailed' = WorkerExit(detailed)
    /\ tpc' = "idle"
    /\ exited' = "raised"
    /\ worker_calls' = 0
    /\ UNCHANGED <<deltaVars, persistVars, rapl, handed, files, lock, pc, cur, now, trial, measure_total_run, nextCall>>

\* ================================================ run_experiment (SpecPersist)
FileNames == {"metrics", "profiles", "detailed"}

\* the cells of a CSV line: a text, a number, a uuid, or '' (csv writes None as '')
S(s) == [t |-> "str", s |-> s, n |-> 0]
N(n) == [t |-> "num", s |-> "", n |-> n]
U(n) == [t |-> "uuid", s |-> "", n |-> n]
Blank == [t |-> "none", s |-> "", n |-> 0]

\* a dict is the sequence of its items [k, v] in insertion order
Keys(d) == [i \in 1..Len(d) |-> d[i].k]
HasKey(d, k) == \E i \in 1..Len(d) : d[i].k = k
Lookup(d, k) == d[CHOOSE i \in 1..Len(d) : d[i].k = k].v

\* ------------------------------------------------------------ sensors.py
\* NVMeSensor.read_counters for the device nvme0n1: no key when the read of the
\* device raised, else both keys, each with data.get(...): a number <<n>> or
\* None <<>>
KeyRead == "nvme_nvme0n1_data_units_read"
KeyWritten == "nvme_nvme0n1_data_units_written"
NvmeDict(r, w) == <<[k |-> KeyRead, v |-> r], [k |-> KeyWritten, v |-> w]>>
NvmeReadings == {<<>>, NvmeDict(<<1>>, <<1>>), NvmeDict(<<>>, <<1>>)}

\* isinstance(x, (int, float))
IsNumber(x) == Len(x) = 1
\* f'{key}_delta'
DeltaKey(k) == IF k = KeyRead THEN "nvme_nvme0n1_data_units_read_delta"
                              ELSE "nvme_nvme0n1_data_units_written_delta"

\* ------------------------------------------------------- experiment.py
\* Experiment.run, lines 73-76: one delta for every key of the 'before'
\* reading whose value is a number before and after
\* (mutant) a loop body that asks only for a number in the 'after' reading
DeltaOfAnyBefore(key, b, after) ==
    LET a == IF HasKey(after, key) THEN Lookup(after, key) ELSE <<>>
    IN IF IsNumber(a)
         THEN <<[k |-> DeltaKey(key), v |-> N(a[1] - (IF IsNumber(b) THEN b[1] ELSE 0))]>>
         ELSE <<>>

\* lines 74-76, the body of the loop for one item (key, b) of nvme_before:
\* after = nvme_after.get(key), None when the key is missing
DeltaOf(key, b, after) ==
    LET a == IF HasKey(after, key) THEN Lookup(after, key) ELSE <<>>
    IN IF IsNumber(b) /\ IsNumber(a)
         THEN <<[k |-> DeltaKey(key), v |-> N(a[1] - b[1])]>>
         ELSE <<>>

RECURSIVE NvmeDeltas(_, _)
NvmeDeltas(before, after) ==
    IF before = <<>> THEN <<>>
    ELSE DeltaOf(Head(before).k, Head(before).v, after) \o NvmeDeltas(Tail(before), after)

\* lines 65-76: the metrics dict in insertion order; the process counters
\* (cpu, memory, context switches, io) are deltas of two psutil snapshots
Metrics(energy, before, after) ==
    <<[k |-> "energy_j", v |-> N(energy)], [k |-> "elapsed_ns", v |-> N(1)],
      [k |-> "cpu_user", v |-> N(0)], [k |-> "cpu_system", v |-> N(0)],
      [k |-> "mem_delta_bytes", v |-> N(0)],
      [k |-> "ctx_voluntary", v |-> N(0)], [k |-> "ctx_involuntary", v |-> N(0)],
      [k |-> "io_read_calls", v |-> N(0)], [k |-> "io_write_calls", v |-> N(0)]>>
    \o NvmeDeltas(before, after)

\* the joules of the whole workload in the trials of SpecPersist
RunEnergy == IF measure_total_run THEN 1 ELSE 0

\* the records a trial can harvest
RF1 == [func_name |-> "f", energy_j |-> 1, elapsed_ns |-> 2]
RF2 == [func_name |-> "f", energy_j |-> 2, elapsed_ns |-> 3]
RG == [func_name |-> "g", energy_j |-> 1, elapsed_ns |-> 1]
ProfileLists == {<<>>, <<RF1, RF2>>, <<RF1, RG, RF2>>}

\* line 99: uuid.uuid4() returns an identifier not returned before
Uuid4Repeats(n) == 1
Uuid4(n) == n + 1

\* lines 130-133: the keys of the first result, without 'function_profiles' and
\* 'run_uuid', and 'run_uuid' inserted in front
RECURSIVE Remove(_, _)
Remove(seq, x) ==
    IF seq = <<>> THEN <<>>
    ELSE IF Head(seq) = x THEN Tail(seq) ELSE <<Head(seq)>> \o Remove(Tail(seq), x)
ResultKeys(r) == Keys(r.metrics) \o <<"function_profiles", "run_uuid">>
MetricKeys(r) == <<"run_uuid">> \o Remove(Remove(ResultKeys(r), "function_profiles"), "run_uuid")

\* result.get(k) for a key of metric_keys
ResultGet(r, k) ==
    IF k = "run_uuid" THEN U(r.run_uuid)
    ELSE IF HasKey(r.metrics, k) THEN Lookup(r.metrics, k) ELSE Blank

\* lines 118-120: 'a' if the file exists else 'w'
ModeAlwaysW(there) == "w"
Mode(there) == IF there THEN "a" ELSE "w"
\* open(file, mode): what the file holds once opened
Opened(f) == IF Mode(f \in exists) = "a" THEN rows[f] ELSE <<>>

\* lines 135-142: the header is written if the file did not exist
WritesHeaderAlways(there) == TRUE
WritesHeader(there) == ~there

MetricsHeader(keys) == [i \in 1..Len(keys) |-> S(keys[i])]
ProfilesHeader == <<S("run_uuid"), S("func_name"), S("call_count"),
                    S("total_energy_j"), S("total_elapsed_ns")>>
DetailedHeader == <<S("run_uuid"), S("func_name"), S("energy_j"), S("elapsed_ns")>>

\* line 148
MetricsRow(r, keys) == [i \in 1..Len(keys) |-> ResultGet(r, keys[i])]

\* lines 150-159: agg, a dict keyed by func_name in order of first occurrence
AggAddKeepsLast(agg, rec) ==
    IF \E i \in 1..Len(agg) : agg[i].name = rec.func_name
      THEN LET i == CHOOSE j \in 1..Len(agg) : agg[j].name = rec.func_name
           IN [agg EXCEPT ![i] = [name |-> @.name, count |-> @.count + 1,
                                  energy_j |-> rec.energy_j,
                                  elapsed_ns |-> rec.elapsed_ns]]
      ELSE Append(agg, [name |-> rec.func_name, count |-> 1,
                        energy_j |-> rec.energy_j, elapsed_ns |-> rec.elapsed_ns])
AggAdd(agg, rec) ==
    LET known == \E i \in 1..Len(agg) : agg[i].name = rec.func_name
        agg0 == IF known THEN agg
                ELSE Append(agg, [name |-> rec.func_name, count |-> 0,
                                  energy_j |-> 0, elapsed_ns |-> 0])
        i == CHOOSE j \in 1..Len(agg0) : agg0[j].name = rec.func_name
    IN [agg0 EXCEPT ![i] = [name |-> @.name, count |-> @.count + 1,
                            energy_j |-> @.energy_j + rec.energy_j,
                            elapsed_ns |-> @.elapsed_ns + rec.elapsed_ns]]
RECURSIVE AggregateFrom(_, _)
AggregateFrom(agg, profs) ==
    IF profs = <<>> THEN agg ELSE AggregateFrom(AggAdd(agg, Head(profs)), Tail(profs))
Aggregate(profs) == AggregateFrom(<<>>, profs)

\* lines 161-162
SummaryRows(r) ==
    LET agg == Aggregate(r.function_profiles)
    IN [i \in 1..Len(agg) |-> <<U(r.run_uuid), S(agg[i].name), N(agg[i].count),
                                N(agg[i].energy_j), N(agg[i].elapsed_ns)>>]
\* lines 164-165
DetailRowsNone(r) == <<>>
DetailRows(r) ==
    LET profs == r.function_profiles
    IN [i \in 1..Len(profs) |-> <<U(r.run_uuid), S(profs[i].func_name),
                                  N(profs[i].energy_j), N(profs[i].elapsed_ns)>>]

\* lines 144-165: what the loop over all_results writes to each file
RECURSIVE Written(_, _, _)
Written(f, results, keys) ==
    IF results = <<>> THEN <<>>
    ELSE (IF f = "metrics" THEN <<MetricsRow(Head(results), keys)>>
          ELSE IF f = "profiles" THEN SummaryRows(Head(results))
          ELSE DetailRows(Head(results)))
         \o Written(f, Tail(results), keys)

HeaderOf(f, keys) == IF f = "metrics" THEN MetricsHeader(keys)
                     ELSE IF f = "profiles" THEN ProfilesHeader ELSE DetailedHeader

\* line 91-96: exp.setup(), the output directory, all_results = []
Start(n) ==
    /\ rpc \in {"idle", "returned", "raised"}
    /\ requested + n <= MaxTotalRuns
    /\ requested' = requested + n
    /\ runs' = n
    /\ setup_calls' = setup_calls + 1
    /\ all_results' = <<>>
    /\ rpc' = "loop"
    /\ failed' = FALSE
    /\ exists0' = exists
    /\ rows0' = rows
    /\ UNCHANGED <<deltaVars, profVars, exists, rows, uuids, persisted, persists>>

\* line 97: for i in range(runs) ends after runs iterations
LoopDoneEarly(k, n) == k >= 1 \/ k = n
LoopDone(k, n) == k = n

\* lines 98-100: exp.run() returns, the result gets its run_uuid
ExpRunReturns ==
    /\ rpc = "loop"
    /\ ~LoopDone(Len(all_results), runs)
    /\ \E before \in NvmeReadings, after \in NvmeReadings, profs \in ProfileLists :
          all_results' = Append(all_results,
                                [metrics |-> Metrics(RunEnergy, before, after),
                                 function_profiles |-> profs,
                                 run_uuid |-> Uuid4(uuids)])
    /\ uuids' = uuids + 1
    /\ UNCHANGED <<deltaVars, profVars, exists, rows, rpc, runs, setup_calls, requested, persisted,
                   persists, failed, exists0, rows0>>

\* what run_experiment() does when exp.run() raises: nothing catches the
\* failure, it leaves run_experiment() and the locals are gone
OnFailureSkipsTrial == "loop"
OnFailure == "raised"

\* (mutant) a run_experiment() that saves the results it has when a trial fails
RowsOnFailureFlushes(f) ==
    IF all_results = <<>> THEN rows[f]
    ELSE rows[f] \o Written(f, all_results, MetricKeys(all_results[1]))

\* lines 97-100 have no try: a failure of exp.run() leaves run_experiment()
\* before any file is opened (line 122), each file stays as it is
RowsOnFailure(f) == rows[f]

\* line 98: exp.run() raises
ExpRunRaises ==
    /\ rpc = "loop"
    /\ ~LoopDone(Len(all_results), runs)
    /\ failed' = TRUE
    /\ setup_calls' = IF OnFailure = "loop" THEN setup_calls ELSE 0
    /\ rpc' = OnFailure
    /\ runs' = IF OnFailure = "loop" THEN runs - 1 ELSE 0
    /\ all_results' = IF OnFailure = "loop" THEN all_results ELSE <<>>
    /\ rows' = [f \in FileNames |-> RowsOnFailure(f)]
    /\ UNCHANGED <<deltaVars, profVars, exists, uuids, requested, persisted, persists,
                   exists0, rows0>>

\* lines 105-107: no result, nothing is written
NoRuns ==
    /\ rpc = "loop"
    /\ LoopDone(Len(all_results), runs)
    /\ all_results = <<>>
    /\ rpc' = "returned"
    /\ setup_calls' = 0
    /\ UNCHANGED <<deltaVars, profVars, exists, rows, runs, all_results, uuids, requested,
                   persisted, persists, failed, exists0, rows0>>

\* lines 109-170: the three files are opened, the headers and the rows written
Persist ==
    /\ rpc = "loop"
    /\ LoopDone(Len(all_results), runs)
    /\ all_results # <<>>
    /\ LET keys == MetricKeys(all_results[1])
       IN rows' = [f \in FileNames |->
                     Opened(f)
                     \o (IF WritesHeader(f \in exists) THEN <<HeaderOf(f, keys)>> ELSE <<>>)
                     \o Written(f, all_results, keys)]
    /\ exists' = FileNames
    /\ persisted' = persisted \o all_results
    /\ persists' = persists + 1
    /\ rpc' = "returned"
    /\ runs' = 0
    /\ setup_calls' = 0
    /\ all_results' = <<>>
    /\ exists0' = exists'
    /\ rows0' = rows'
    /\ UNCHANGED <<deltaVars, profVars, uuids, requested, failed>>

PersistInit ==
    /\ exists = {}
    /\ rows = [f \in FileNames |-> <<>>]
    /\ rpc = "idle"
    /\ runs = 0
    /\ setup_calls = 0
    /\ all_results = <<>>
    /\ uuids = 0
    /\ requested = 0
    /\ persisted = <<>>
    /\ persists = 0
    /\ failed = FALSE
    /\ exists0 = {}
    /\ rows0 = [f \in FileNames |-> <<>>]

NextPersist ==
    \/ \E n \in 0..MaxRuns : Start(n)
    \/ ExpRunReturns
    \/ ExpRunRaises
    \/ NoRuns
    \/ Persist

ProfInit ==
    /\ env = FALSE
    /\ records = [p \in Pids |-> <<>>]
    /\ detailed = [p \in Pids |-> <<>>]
    /\ files = {}
    /\ lock = [p \in Pids |-> None]
    /\ open = {}
    /\ pc = [c \in Callers |-> "idle"]
    /\ cur = [c \in Callers |-> NoCall]
    /\ now = 0
    /\ tpc = "idle"
    /\ trial = 0
    /\ run_energy_j = 0
    /\ profiles = <<>>
    /\ nextCall = 0
    /\ completed = 0
    /\ worker_calls = 0
    /\ handed = {}
    /\ exited = None

\* ------------------------------------------- the NVMe snapshots (SpecDeltas)
\* what data.get('data_units_...', None) can be: None or a number
CounterVals == {<<>>} \cup {<<n>> : n \in 1..MaxCounter}
\* what read_counters() can return for the device nvme0n1
AllNvmeReadings == {<<>>} \cup {NvmeDict(r, w) : r \in CounterVals, w \in CounterVals}

\* line 42: nvme_before = nvme_sensor.read_counters()
ReadBefore ==
    /\ dpc = "before"
    /\ nvme_before' \in AllNvmeReadings
    /\ dpc' = "after"
    /\ UNCHANGED <<profVars, persistVars, nvme_after, delta_metrics>>

\* line 63: nvme_after = nvme_sensor.read_counters()
ReadAfter ==
    /\ dpc = "after"
    /\ nvme_after' \in AllNvmeReadings
    /\ dpc' = "deltas"
    /\ UNCHANGED <<profVars, persistVars, nvme_before, delta_metrics>>

\* lines 73-76: the loop over nvme_before.items()
ComputeDeltas ==
    /\ dpc = "deltas"
    /\ delta_metrics' = NvmeDeltas(nvme_before, nvme_after)
    /\ dpc' = "done"
    /\ UNCHANGED <<profVars, persistVars, nvme_before, nvme_after>>

\* the next trial starts with no snapshot taken
NextTrial ==
    /\ dpc = "done"
    /\ dpc' = "before"
    /\ nvme_before' = <<>>
    /\ nvme_after' = <<>>
    /\ delta_metrics' = <<>>
    /\ UNCHANGED <<profVars, persistVars>>

DeltaInit ==
    /\ dpc = "before"
    /\ nvme_before = <<>>
    /\ nvme_after = <<>>
    /\ delta_metrics = <<>>

NextDeltas ==
    \/ ReadBefore
    \/ ReadAfter
    \/ ComputeDeltas
    \/ NextTrial

\* Experiment.__init__: measure_total_run is an argument, True by default
Init == /\ ProfInit /\ PersistInit /\ DeltaInit
        /\ measure_total_run \in BOOLEAN /\ rapl \in EnergyVals
InitPersist == ProfInit /\ PersistInit /\ DeltaInit /\ measure_total_run = TRUE /\ rapl = 1

\* the steps of Spec that do not write a record file
NextButWrite ==
    \/ \E c \in Callers : Acquire(c)
    \/ \E c \in Callers : Begin(c)
    \/ \E c \in Callers : FuncNested(c)
    \/ \E c \in Callers : End(c)
    \/ \E c \in Callers : Release(c)
    \/ \E c \in Callers : RecordDetailed(c)
    \/ RunEnter
    \/ Clear
    \/ ClearProfiles
    \/ Before
    \/ StartWorkload
    \/ WorkloadReturn
    \/ After
    \/ Harvest
    \/ Finally
    \/ TrialRaise

Next ==
    \/ NextButWrite
    \/ \E c \in Callers : RecordEnergy(c)

NextNoFault ==
    \/ NextButWrite
    \/ \E c \in Callers : RecordEnergyNoFault(c)

\* trials and profiled calls; writing a record file may fail
Spec == Init /\ [][Next]_vars

\* the same with every write of a record file succeeding
SpecNoFault == Init /\ [][NextNoFault]_vars

\* the workload of the first trial has just started, with the capture of
\* the whole run open, on a machine whose counters give readings
InitFlat ==
    /\ PersistInit /\ DeltaInit
    /\ measure_total_run = TRUE /\ rapl = 1
    /\ env = TRUE
    /\ tpc = "workload"
    /\ trial = 1
    /\ open = RunCapture
    /\ records = [p \in Pids |-> <<>>]
    /\ detailed = [p \in Pids |-> <<>>]
    /\ files = {}
    /\ lock = [p \in Pids |-> None]
    /\ pc = [c \in Callers |-> "idle"]
    /\ cur = [c \in Callers |-> NoCall]
    /\ now = 0
    /\ run_energy_j = 0
    /\ profiles = <<>>
    /\ nextCall = 0
    /\ completed = 0
    /\ worker_calls = 0
    /\ handed = {}
    /\ exited = None

\* the steps of the callers when no wrapped function calls a wrapped function
\* (none of the workloads in src/ does)
NextFlat ==
    \/ \E c \in Callers : Acquire(c)
    \/ \E c \in Callers : Begin(c)
    \/ \E c \in Callers : End(c)
    \/ \E c \in Callers : Release(c)
    \/ \E c \in Callers : RecordEnergy(c)
    \/ \E c \in Callers : RecordDetailed(c)

\* a thread that holds the lock or has left it keeps running: the capture
\* begins, the wrapped function returns or raises, the with blocks end, the
\* record is made
FairFlat ==
    \A c \in Callers :
        /\ WF_vars(Begin(c))
        /\ WF_vars(End(c))
        /\ WF_vars(Release(c))
        /\ WF_vars(RecordEnergy(c))
        /\ WF_vars(RecordDetailed(c))

\* the profiled calls of one workload, made by threads that keep running
SpecFlat == InitFlat /\ [][NextFlat]_vars /\ FairFlat

\* the steps of SpecNoFault and clear_detailed_profiles() between trials
NextDetailed ==
    \/ NextNoFault
    \/ ClearDetailedProfiles

\* trials and profiled calls on a disk that never fails, with the
\* DetailedProfiler store cleared by hand between trials
SpecDetailed == Init /\ [][NextDetailed]_vars

\* run_experiment() invoked again and again on one destination
SpecPersist == InitPersist /\ [][NextPersist]_vars

\* the NVMe snapshots and deltas of trial after trial
SpecDeltas == InitPersist /\ [][NextDeltas]_vars

\* ======================================================== claims of Spec

InSection(c) == pc[c] \in {"func", "nested"}
CapturesOf(p) == {o \in open : o[1] = p}
Tags(recs) == {recs[i].tag : i \in 1..Len(recs)}

\* C1: the list a trial returns under 'function_profiles' holds exactly the
\* records of the profiled calls completed between the trial's clear and its
\* harvest: none of an earlier trial or from outside the trial, none missing.
C1_HarvestExactlyTrialRecords ==
    tpc = "finally" =>
        /\ Len(profiles) = completed
        /\ Tags(profiles) = {<<trial, k>> : k \in 1..completed}

\* C2: within one process at most one thread at a time is between the begin
\* and the end of a profiled call's capture, and that thread holds
\* energy_sensor_lock from before the begin until after the end.
C2_CaptureMutualExclusion ==
    \A c \in Callers :
        (InSection(c) \/ <<Pid(c), c>> \in open) =>
            /\ lock[Pid(c)] = c
            /\ \A d \in Callers \ {c} :
                  Pid(d) = Pid(c) => ~InSection(d) /\ <<Pid(d), d>> \notin open

\* two threads of the parent are making profiled calls at once: one is inside
\* its section while the other has left its own and not yet returned
C2_Witness ==
    /\ InSection("t1") /\ <<"parent", "t1">> \in open
    /\ pc["main"] = "record"

\* C3: at no point are two energy captures open at once in the process,
\* counting the whole-workload capture of Experiment.run() and the per-call
\* captures of the profiler.
C3_OneCaptureAtATime == \A p \in Pids : Cardinality(CapturesOf(p)) <= 1

\* ================================================= claims of SpecPersist

IsHeader(row) == row[1] = S("run_uuid")
\* the lines of file f that carry the correlation id u
RowsOf(f, u) == {i \in 1..Len(rows[f]) : rows[f][i][1] = U(u)}
Trials == 1..Len(persisted)
RECURSIVE SumOf(_, _, _)
SumOf(profs, name, energy) ==
    IF profs = <<>> THEN 0
    ELSE (IF Head(profs).func_name # name THEN 0
          ELSE IF energy THEN Head(profs).energy_j ELSE Head(profs).elapsed_ns)
         + SumOf(Tail(profs), name, energy)
CountOf(profs, name) == Cardinality({k \in 1..Len(profs) : profs[k].func_name = name})
NamesOf(profs) == {profs[k].func_name : k \in 1..Len(profs)}
RECURSIVE SumCounts(_, _)
SumCounts(f, is) ==
    IF is = {} THEN 0
    ELSE LET i == CHOOSE j \in is : TRUE IN rows[f][i][3].n + SumCounts(f, is \ {i})

\* C4: the correlation ids of the trials written are pairwise distinct, each
\* is in exactly one line of the metrics file, and the call-detail file has as
\* many lines with that id as the trial harvested records.
C4_IdsDistinctAndCounted ==
    /\ \A i, j \in Trials : i # j => persisted[i].run_uuid # persisted[j].run_uuid
    /\ \A i \in Trials :
          /\ Cardinality(RowsOf("metrics", persisted[i].run_uuid)) = 1
          /\ Cardinality(RowsOf("detailed", persisted[i].run_uuid))
                = Len(persisted[i].function_profiles)

\* an invocation of two trials has been written, one of them with three records
C4_Witness ==
    /\ rpc = "returned" /\ Len(persisted) >= 2
    /\ \E i \in Trials : Len(persisted[i].function_profiles) = 3

\* C5 (as claimed): the correlation id of every trial written is in all three
\* files, also for a trial whose workload made no profiled call.
C5_IdInAllThreeFiles ==
    \A i \in Trials : \A f \in FileNames : RowsOf(f, persisted[i].run_uuid) # {}

\* C5 (amended): the id of every trial written is in the metrics file; it is in
\* the function-summary and in the call-detail file exactly when the trial
\* harvested at least one record.
C5_IdInMetricsAndWhereRecorded ==
    \A i \in Trials :
        /\ RowsOf("metrics", persisted[i].run_uuid) # {}
        /\ \A f \in {"profiles", "detailed"} :
              RowsOf(f, persisted[i].run_uuid) # {} <=> persisted[i].function_profiles # <<>>

\* a trial without records and a trial with records have both been written
C5_Witness ==
    /\ \E i \in Trials : persisted[i].function_profiles = <<>>
    /\ \E i \in Trials : persisted[i].function_profiles # <<>>

\* C6: for every trial and function the summary line has call_count = number
\* of the trial's records of that function, and the sums of their energy_j and
\* elapsed_ns; one summary line per distinct function of the trial, and the
\* call counts of a trial add up to the number of its call-detail lines.
C6_SummaryIsAggregate ==
    \A i \in Trials :
        LET u == persisted[i].run_uuid
            profs == persisted[i].function_profiles
            lines == RowsOf("profiles", u)
        IN /\ Cardinality(lines) = Cardinality(NamesOf(profs))
           /\ \A name \in NamesOf(profs) :
                 \E l \in lines :
                    rows["profiles"][l] = <<U(u), S(name), N(CountOf(profs, name)),
                                            N(SumOf(profs, name, TRUE)),
                                            N(SumOf(profs, name, FALSE))>>
           /\ SumCounts("profiles", lines) = Cardinality(RowsOf("detailed", u))

\* a trial whose records of f are interleaved with one of g has been written
C6_Witness == \E i \in Trials : persisted[i].function_profiles = <<RF1, RG, RF2>>

\* C7: when the workload of a trial raises, the failure leaves
\* run_experiment() and the three files are as they were when the invocation
\* started: no line of that trial is written.
C7_FailureWritesNothing ==
    failed => /\ rpc = "raised"
              /\ rows = rows0
              /\ exists = exists0

\* a trial failed after an earlier trial of the same invocation had returned,
\* on a destination that already held the lines of a previous invocation
C7_Witness == failed /\ exists # {} /\ uuids > Len(persisted)

\* C8: every file of a destination that did not exist at first holds exactly
\* one header line, its first line, however many invocations wrote to it.
C8_OneHeaderFirst ==
    /\ exists \in {{}, FileNames}
    /\ \A f \in exists :
          /\ Len(rows[f]) >= 1
          /\ IsHeader(rows[f][1])
          /\ \A i \in 2..Len(rows[f]) : ~IsHeader(rows[f][i])

\* two invocations have written to the destination
C8_Witness == persists >= 2 /\ rpc = "returned"

\* C9: the files are append-only: a step leaves the lines of an existing file
\* as a prefix of its new content, adds no header to it, and adds one metrics
\* line per trial written (two equal runs leave twice the data lines of one).
C9_AppendOnly ==
    [][/\ \A f \in exists :
            /\ f \in exists'
            /\ Len(rows'[f]) >= Len(rows[f])
            /\ SubSeq(rows'[f], 1, Len(rows[f])) = rows[f]
            /\ \A i \in (Len(rows[f]) + 1)..Len(rows'[f]) : ~IsHeader(rows'[f][i])
       /\ "metrics" \in exists =>
            Len(rows'["metrics"]) - Len(rows["metrics"]) = Len(persisted') - Len(persisted)
      ]_vars

\* a second invocation has appended to the files of the first
C9_Witness == persists >= 2 /\ Len(rows["metrics"]) >= 3

\* C10: every data line of the metrics file has the key list of the file's
\* header, in the header's order: each trial written has exactly the header's
\* keys, in the same or in a later invocation.
C10_RowsHaveHeaderKeys ==
    \A i \in Trials :
        /\ MetricsHeader(MetricKeys(persisted[i])) = rows["metrics"][1]
        /\ \A l \in RowsOf("metrics", persisted[i].run_uuid) :
              Len(rows["metrics"][l]) = Len(rows["metrics"][1])

\* C11: a trial whose key set differs from the key set of the first trial of
\* its invocation gets no metrics line: every metrics line written is the
\* line of the trial's own keys, no key of the trial dropped and no missing
\* key filled with an empty value.
C11_MismatchedTrialNotWritten ==
    \A i \in Trials :
        \A l \in RowsOf("metrics", persisted[i].run_uuid) :
            rows["metrics"][l] = MetricsRow(persisted[i], MetricKeys(persisted[i]))

\* C13: an invocation of run_experiment() that returns has called exp.setup()
\* exactly once, before its first exp.run(), and exp.run() exactly runs times,
\* each call made after the previous one has returned its result.
C13_SetupOnceRunNTimes ==
    [][/\ rpc = "loop" => setup_calls = 1
       /\ Len(all_results') = Len(all_results) + 1 =>
             /\ rpc = "loop" /\ setup_calls = 1
             /\ Len(all_results) < runs
       /\ (rpc = "loop" /\ rpc' = "returned") => (Len(all_results) = runs /\ ~failed)
      ]_vars

\* both trials of an invocation of two have returned
C13_Witness == rpc = "loop" /\ setup_calls = 1 /\ runs = 2 /\ Len(all_results) = 2

\* ================================================ further claims of Spec

\* a step in which caller c leaves wrapper() of an energy_profile function
\* with its record made
Records(c) == pc[c] = "record" /\ pc'[c] = "idle" /\ Kind(cur[c].fn) = "energy"

C15_OneFilePerRecord ==
    tpc \in {"workload", "after", "harvest", "finally"} => Cardinality(files) = completed

\* C19: the capture of the whole workload is open exactly while the workload
\* runs and only when measure_total_run is true; the trial's energy_j is the
\* joules of that capture, and 0.0 when measure_total_run is false.
C19_WholeRunCapture ==
    /\ tpc = "workload" => (<<"parent", "run">> \in open <=> measure_total_run)
    /\ tpc # "workload" => <<"parent", "run">> \notin open
    /\ tpc \in {"after", "harvest", "finally"} =>
          run_energy_j = IF measure_total_run THEN rapl ELSE 0

\* a workload with a profiled call has run without a capture of its own on a
\* machine whose counters give readings
C19_Witness ==
    /\ tpc = "after" /\ ~measure_total_run
    /\ rapl = 1 /\ run_energy_j = 0 /\ completed >= 1

\* C12: ENERGYTEST_PROFILE_DIR is in the environment from before the workload
\* starts until run() exits, and is absent once run() has exited, whether it
\* returned or a failure of the workload, of clear, of a snapshot or of the
\* harvest left it.
C12_ProfileDirScoped ==
    /\ tpc \in {"clear", "before", "start", "workload", "after", "harvest", "finally"} => env
    /\ tpc = "idle" => ~env

\* run() has been left by a failure of the harvest
C12_Witness == tpc = "idle" /\ exited = "raised" /\ ~env /\ files # {}

\* the records of list recs that are in a file written by a worker process
FromWorker(recs) ==
    {i \in 1..Len(recs) : \E f \in files : f.path[1] = "worker" /\ f.rec = recs[i]}

C18_PassThrough ==
    [][/\ \A o \in handed' : o.wrapper = o.func
       /\ ((\E p \in Pids : Len(records'[p]) > Len(records[p])) \/ files' \ files # {}) =>
             \E c \in Callers : /\ Records(c)
                                /\ cur[c].result = ReturnOf(cur[c].fn)
                                /\ <<Pid(c), c>> \notin open
      ]_vars

\* a call has returned its function's value and a call has raised its
\* function's failure
C18_Witness ==
    /\ [func |-> "f()", wrapper |-> "f()"] \in handed
    /\ [func |-> "raise", wrapper |-> "raise"] \in handed

\* C20: when the write of a record file fails, wrapper() still returns the
\* function's value to its caller and the record is dropped: no file holds
\* it, _records is unchanged and a harvest does not return it.
C20_WriteFailureDropsRecord ==
    [][\A c \in Callers :
          (Records(c) /\ env /\ files' \ files = {}) =>
             /\ files' = files
             /\ records' = records
             /\ [func |-> ReturnOf(cur[c].fn), wrapper |-> ReturnOf(cur[c].fn)] \in handed'
             /\ \A o \in handed' : o.wrapper = "raise" => o.func = "raise"
             /\ \A h \in (GetRecords("parent"))' : Record(c).tag \notin Tags(h)
      ]_vars

\* the only profiled call of a trial returned its value and the harvest of
\* the trial is empty
C20_Witness ==
    /\ tpc = "finally" /\ completed = 1 /\ profiles = <<>>
    /\ handed = {[func |-> "f()", wrapper |-> "f()"]}

\* the records of the three stores
AllRecords ==
    UNION {{records[p][i] : i \in 1..Len(records[p])} : p \in Pids}
    \cup UNION {{detailed[p][i] : i \in 1..Len(detailed[p])} : p \in Pids}
    \cup {f.rec : f \in files}

\* C21: when the counters give zero or no reading, the capture ends with a
\* warning and without a failure and reports energy_j = 0.0: the profiled
\* call returns its function's value and leaves a record of 0.0 joules, and
\* the trial goes on with run energy 0.0.
C21_ZeroReadingProceeds ==
    rapl = 0 =>
        /\ \A c \in Callers :
              pc[c] \in {"release", "record"} =>
                 /\ cur[c].warned
                 /\ ~cur[c].exc => cur[c].energy = 0 /\ cur[c].result = ReturnOf(cur[c].fn)
                 /\ Raises(cur[c]) <=> cur[c].exc
        /\ \A o \in handed : o.wrapper = o.func
        /\ \A r \in AllRecords : r.energy_j = 0
        /\ tpc \in {"after", "harvest", "finally"} => run_energy_j = 0

\* on a machine without readings a trial with its own capture has run a
\* profiled call to its return and harvested the call's record
C21_Witness ==
    /\ rapl = 0 /\ measure_total_run /\ tpc = "finally"
    /\ Len(profiles) >= 1 /\ profiles[1].energy_j = 0
    /\ [func |-> "f()", wrapper |-> "f()"] \in handed

\* the step of run() from position a to position b
Step(a, b) == tpc = a /\ tpc' = b

\* C22: inside a trial run() goes from the clear to the 'before' snapshots,
\* the workload, the 'after' snapshots and the harvest, in this order and
\* skipping none; the clear and the harvest are made with
\* ENERGYTEST_PROFILE_DIR set: the clear empties the directory and _records,
\* the harvest returns _records followed by the content of every file.
C22_StepOrder ==
    [][/\ tpc' # tpc =>
             \/ tpc' = "idle" /\ tpc # "idle"
             \/ <<tpc, tpc'>> \in {<<"idle", "clear">>, <<"clear", "before">>,
                                   <<"before", "start">>, <<"start", "workload">>,
                                   <<"workload", "after">>, <<"after", "harvest">>,
                                   <<"harvest", "finally">>}
       /\ Step("clear", "before") =>
             env /\ env' /\ files' = {} /\ records'["parent"] = <<>>
       /\ Step("harvest", "finally") =>
             /\ env /\ env'
             /\ Len(profiles') = Len(records["parent"]) + Cardinality(files)
             /\ SubSeq(profiles', 1, Len(records["parent"])) = records["parent"]
             /\ \A f \in files : \E i \in 1..Len(profiles') : profiles'[i] = f.rec
      ]_vars

\* a second trial went through all its steps and harvested a record of its
\* workload from the directory
C22_Witness ==
    /\ tpc = "finally" /\ trial = 2 /\ env
    /\ files # {} /\ \A f \in files : f.rec.tag[1] = 2
    /\ Len(profiles) = Cardinality(files)

\* C23: a call of an energy_profile function whose function raised leaves
\* wrapper() without a record: no file is written and no list changes, and
\* no failing call ever reaches the statements that make the record.
C23_NoRecordOnFailure ==
    [][\A c \in Callers :
          /\ (pc[c] = "release" /\ cur[c].exc /\ Kind(cur[c].fn) = "energy" /\ pc'[c] # pc[c]) =>
                /\ pc'[c] = "idle"
                /\ files' = files /\ records' = records /\ detailed' = detailed
                /\ completed' = completed
          /\ pc'[c] = "record" => ~cur'[c].exc
      ]_vars

\* the only profiled call of a workload so far has failed, with the
\* directory configured: no file and no record
C23_Witness ==
    /\ tpc = "workload" /\ env /\ AllJoined
    /\ handed = {[func |-> "raise", wrapper |-> "raise"]}
    /\ files = {} /\ records["parent"] = <<>> /\ completed = 0

\* ================================================== claims of SpecDeltas

NvmeKeys == {KeyRead, KeyWritten}
\* d.get(k) is a number
NumberAt(d, k) == HasKey(d, k) /\ IsNumber(Lookup(d, k))

\* C24: '<key>_delta' is in the trial's metrics exactly when the key was read
\* in the 'before' snapshot and its value is a number before and after, and
\* it is then after - before; a key that is missing or None in a snapshot, or
\* read only in the 'after' snapshot, adds nothing, and the loop always ends
\* without a failure.
C24_DeltaIffBothNumeric ==
    dpc = "done" =>
        /\ \A k \in NvmeKeys :
              /\ HasKey(delta_metrics, DeltaKey(k))
                    <=> (NumberAt(nvme_before, k) /\ NumberAt(nvme_after, k))
              /\ HasKey(delta_metrics, DeltaKey(k)) =>
                    Lookup(delta_metrics, DeltaKey(k))
                       = N(Lookup(nvme_after, k)[1] - Lookup(nvme_before, k)[1])
        /\ \A i \in 1..Len(delta_metrics) : \E k \in NvmeKeys : delta_metrics[i].k = DeltaKey(k)

\* one counter is None before and a number after, the other a number in both
C24_Witness ==
    /\ dpc = "done"
    /\ nvme_before = NvmeDict(<<>>, <<1>>) /\ nvme_after = NvmeDict(<<1>>, <<2>>)
    /\ Len(delta_metrics) = 1

\* C25: a profiled call whose function makes another profiled call on the
\* same thread never returns: the thread waits for energy_sensor_lock, which
\* it holds itself, for ever, the lock is never released, and no other thread
\* of the process can start a profiled call from then on.
C25_NestedCallBlocks ==
    [][\A c \in Callers :
          pc[c] = "nested" =>
             /\ lock[Pid(c)] = c
             /\ pc'[c] = "nested" /\ lock'[Pid(c)] = c
             /\ \A d \in Callers \ {c} :
                   (Pid(d) = Pid(c) /\ pc[d] = "idle") => pc'[d] = "idle"
      ]_vars

\* the main thread waits inside a nested call during the workload while the
\* pool thread is idle and calls are left to make
C25_Witness ==
    /\ pc["main"] = "nested" /\ tpc = "workload"
    /\ pc["t1"] = "idle" /\ nextCall < MaxCalls /\ completed >= 1

\* =================================================== claims of SpecFlat

\* caller c is inside "with energy_sensor_lock"
InLock(c) == pc[c] \in {"begin", "func", "nested", "release"}

\* C26: energy_sensor_lock is released on every way out of the with block,
\* by a return and by a failure of the function: the lock is free whenever
\* no thread of the process is inside the block, the step that leaves the
\* block frees it, and every call that has acquired the lock, before or
\* after other calls returned or raised, goes on to leave wrapper().
C26_LockReleasedOnEveryExit ==
    /\ [](\A p \in Pids : (\A c \in Callers : Pid(c) = p => ~InLock(c)) => lock[p] = None)
    /\ [][\A c \in Callers :
             (pc[c] = "release" /\ pc'[c] # "release") => lock'[Pid(c)] = None]_vars
    /\ \A c \in Callers : InLock(c) ~> (pc[c] = "idle" /\ lock[Pid(c)] # c)

\* a call has raised, a call has returned, and nobody holds a lock
C26_Witness ==
    /\ [func |-> "raise", wrapper |-> "raise"] \in handed
    /\ [func |-> "f()", wrapper |-> "f()"] \in handed
    /\ AllJoined /\ \A p \in Pids : lock[p] = None
    /\ nextCall = MaxCalls

\* ========================================== further claims of SpecPersist

\* C27: the three files are created or changed only by the step that follows
\* the last of the runs trials, which writes all their results at once; a
\* step in which a trial fails leaves every file as it was when the
\* invocation started, so the trials that had returned before it are not
\* written either.
C27_FilesOnlyAfterAllTrials ==
    [][/\ (rows' # rows \/ exists' # exists) =>
             /\ rpc = "loop" /\ rpc' = "returned"
             /\ runs >= 1 /\ Len(all_results) = runs
             /\ persisted' = persisted \o all_results
       /\ (rpc = "loop" /\ Len(all_results) < runs) =>
             /\ rows' = rows /\ exists' = exists /\ persisted' = persisted
             /\ rows = rows0 /\ exists = exists0
      ]_vars

\* the second trial of an invocation failed after the first had returned, on
\* a destination without files: nothing was created
C27_Witness ==
    /\ rpc = "raised" /\ failed
    /\ exists = {} /\ persisted = <<>> /\ uuids >= 1

\* ================================================= claims of SpecDetailed

IsPrefix(s, t) == Len(s) <= Len(t) /\ SubSeq(t, 1, Len(s)) = s

\* C28: run() neither clears nor harvests DetailedProfiler._records: no
\* record of a context_profile function is ever in a trial's
\* function_profiles, in FunctionProfiler._records or in a record file, and
\* the store of the process only grows, through the trials, until
\* clear_detailed_profiles() is called outside run().
C28_DetailedNeverHarvested ==
    [][/\ \A i \in 1..Len(profiles') : Kind(profiles'[i].func_name) = "energy"
       /\ \A p \in Pids : \A i \in 1..Len(records'[p]) : Kind(records'[p][i].func_name) = "energy"
       /\ \A f \in files' : Kind(f.rec.func_name) = "energy"
       /\ \A p \in Pids : \A i \in 1..Len(detailed'[p]) : Kind(detailed'[p][i].func_name) = "context"
       /\ \/ IsPrefix(detailed["parent"], detailed'["parent"])
          \/ /\ tpc = "idle" /\ tpc' = "idle" /\ pc["main"] = "idle"
             /\ detailed'["parent"] = <<>>
      ]_vars

\* the second trial has harvested nothing although its workload completed a
\* context_profile call, whose record is in the store behind an earlier one
C28_Witness ==
    /\ tpc = "finally" /\ trial = 2 /\ profiles = <<>>
    /\ handed = {[func |-> "h()", wrapper |-> "h()"]}
    /\ Len(detailed["parent"]) >= 2
====
